---- MODULE Spec2Model ----
(***************************************************************************)
(* freecaptcha: the stateless cookie-token protocol of                     *)
(* src/freecaptcha/api_server.py.                                          *)
(*                                                                         *)
(* The server keeps one module global, PRIVATE_KEY, per process, and one   *)
(* key file.  Tokens live only in the client's cookies, so the cookies a   *)
(* request presents are inputs: any field create_secure_cookie_pair can    *)
(* have produced up to now under a key of this deployment, unmodified,     *)
(* with one bit flipped, recombined with a field of another issuance, or   *)
(* absent.  The challenge generator of src/image_generator.py keeps one     *)
(* more module global, GRID_SIZE, in the serving process.                  *)
(*                                                                         *)
(* Spec runs the calls one at a time.  SpecBootstrap runs                  *)
(* generate_or_load_key statement by statement in two launchers (boot),    *)
(* and SpecRender runs generate_captcha and render_scene statement by      *)
(* statement in two request threads (render).                              *)
(*                                                                         *)
(* Python values: str is a TLA+ string; bytes produced by AES-GCM are the  *)
(* symbolic record [key, nonce, pt, flip]; a raised exception is the       *)
(* record Raise(exc, msg, line).  Random draws (os.urandom) and the clock  *)
(* reading (datetime.utcnow) are explicit arguments of the operators and   *)
(* are chosen by the actions.                                              *)
(***************************************************************************)
EXTENDS Integers, Sequences, FiniteSets, TLC

VARIABLES PRIVATE_KEY, keyfile, serving, now, resp, GRID_SIZE, boot, render

vars == <<PRIVATE_KEY, keyfile, serving, now, resp, GRID_SIZE, boot, render>>

-----------------------------------------------------------------------------
(* Bounds of the model *)

\* the clock runs from 0 to MaxNow ticks
MaxNow == 6

\* clock ticks per minute (resolution of the modelled clock)
TicksPerMinute == 1

\* nonces are drawn from 0 .. MaxNonce - 1
MaxNonce == 2

-----------------------------------------------------------------------------
(* Program constants and small input sets *)

\* ttl_minutes=5, the default of create_secure_cookie_pair
DefaultTtlMinutes == 5

None == "None"

\* 256-bit keys AESGCM.generate_key can return
Keys == {"k1", "k2"}

\* file content that is not a 256-bit key
BadKeyBytes == "short"

NoFile == "<absent>"

\* the content of a file opened with "wb" and closed before anything was written
EmptyBytes == ""

\* what the file system does to a call of generate_or_load_key: nothing
\* untoward, open() raising, or f.write() raising
IoOutcomes == {"ok", "open_fails", "write_fails"}

\* the process that calls run_api_server, and the process uvicorn starts
\* for the import string "freecaptcha.api_server:app" with reload=True
Procs == {"main", "worker"}

\* processes started on the same key file, each calling run_api_server
Launchers == {"launcher1", "launcher2"}

\* threads of the worker's pool, each serving one GET /embedded_captcha
Threads == {"thread1", "thread2"}

Nonces == 0 .. (MaxNonce - 1)

\* base64.urlsafe_b64encode(os.urandom(127)).decode(): never holds a "|"
Salts == {"c2FsdA=="}

Marker == "true"

Payloads == {Marker, "circle-square"}

Answers == Payloads

\* the data a caller may hand to create_secure_cookie_pair: any str, one
\* holding the delimiter included
CreateData == Payloads \cup {"tri|angle"}

TTLs == {1, DefaultTtlMinutes}

CookieNames == {"captcha_answer", "captcha_passed"}

\* GRID_SIZE = 10 of image_generator, as the module is imported
InitialGridSize == 10

\* grid_size: int = Query(6, ge=3, le=30) of GET /embedded_captcha
DefaultGridSize == 6

GridSizes == {3, DefaultGridSize}

Instants == 0 .. MaxNow

-----------------------------------------------------------------------------
(* Python exceptions and names *)

Ok(v) == [ok |-> TRUE, val |-> v, exc |-> "", msg |-> "", line |-> 0]

Raise(exc, msg, line) == [ok |-> FALSE, val |-> "", exc |-> exc, msg |-> msg, line |-> line]

\* names bound at module level in api_server.py (imports, globals, defs)
ModuleGlobals ==
    {"FastAPI", "Query", "Response", "Form", "StreamingResponse", "HTMLResponse",
     "Optional", "BytesIO", "generate_captcha", "RETURN_MODE_RETURN",
     "RETURN_MODE_SAVE_FILE", "base64", "datetime", "os", "timedelta", "AESGCM",
     "PRIVATE_KEY", "NONCE_SIZE", "generate_or_load_key", "create_secure_cookie_pair",
     "read_secure_cookie", "decrypt_data", "app", "serve_test_page", "get_captcha",
     "http_check_captcha", "generate_embedded_captcha", "verify_captcha",
     "is_captcha_complete", "run_api_server"}

\* evaluating a name inside a function: its locals, then the module globals
LoadName(name, locals, line) ==
    IF name \in locals \cup ModuleGlobals
      THEN Ok(name)
      ELSE Raise("NameError", "name '" \o name \o "' is not defined", line)

\* str(KeyError(key))
KeyErrorMsg(key) == "'" \o key \o "'"

\* s[index] where index is a str: str.__getitem__ accepts only integers and slices
StrGetItem(s, index, line) ==
    Raise("TypeError", "string indices must be integers, not 'str'", line)

-----------------------------------------------------------------------------
(* datetime *)

\* datetime.isoformat() of the instant t
IsoFormat(t) == "T" \o ToString(t)

\* datetime.fromisoformat(s)
FromIsoFormat(s, line) ==
    IF \E t \in Instants : IsoFormat(t) = s
      THEN Ok(CHOOSE t \in Instants : IsoFormat(t) = s)
      ELSE Raise("ValueError", "Invalid isoformat string", line)

\* timedelta(minutes=m) for an integer m, in clock ticks
Timedelta(minutes) == minutes * TicksPerMinute

\* timedelta(minutes=s) for a str s: the constructor accepts numbers only
TimedeltaOfStr(s, line) ==
    Raise("TypeError", "unsupported type for timedelta minutes component: str", line)

-----------------------------------------------------------------------------
(* str.split and f-strings *)

RECURSIVE FindChar(_, _, _)
\* the least index >= i of character c in s, or 0
FindChar(s, c, i) ==
    IF i > Len(s) THEN 0
    ELSE IF SubSeq(s, i, i) = c THEN i
    ELSE FindChar(s, c, i + 1)

RECURSIVE Split(_, _)
\* s.split(c)
Split(s, c) ==
    LET i == FindChar(s, c, 1) IN
    IF i = 0 THEN <<s>>
    ELSE <<SubSeq(s, 1, i - 1)>> \o Split(SubSeq(s, i + 1, Len(s)), c)

\* f"{send_time}|{ttl_minutes}|{salt}"
Payload1(send_time, ttl_minutes, salt) ==
    send_time \o "|" \o ToString(ttl_minutes) \o "|" \o salt

\* f"{send_time}|{data}"
Payload2(send_time, data) == send_time \o "|" \o data

-----------------------------------------------------------------------------
(* AES-GCM and base64 *)

\* AESGCM(key)
AESGCMNew(key, line) ==
    IF key \in Keys THEN Ok(key)
    ELSE IF key = None
      THEN Raise("TypeError", "key must be bytes-like", line)
      ELSE Raise("ValueError", "AESGCM key must be 128, 192, or 256 bits.", line)

\* aes.encrypt(nonce, payload, None): ciphertext with tag
AesEncrypt(key, nonce, payload) ==
    [key |-> key, nonce |-> nonce, pt |-> payload, flip |-> FALSE]

\* aes.decrypt(nonce, encrypted, None): the tag verifies only for the key and
\* nonce of the encryption and an unmodified ciphertext
AesDecrypt(key, nonce, encrypted, line) ==
    IF encrypted.key = key /\ encrypted.nonce = nonce /\ ~encrypted.flip
      THEN Ok(encrypted.pt)
      ELSE Raise("InvalidTag", "", line)

\* nonce + encrypted
Concat(nonce, encrypted) == [nonce |-> nonce, ct |-> encrypted]

\* base64.urlsafe_b64encode(b).decode()
B64Encode(b) == [b64 |-> TRUE, bytes |-> b]

\* base64.urlsafe_b64decode(s)
B64Decode(s, line) ==
    IF s.b64 THEN Ok(s.bytes)
    ELSE Raise("binascii.Error", "Incorrect padding", line)

-----------------------------------------------------------------------------
(* generate_or_load_key *)

\* the file afterwards, were nothing ever written to it
KeyFileNeverWritten(file, fresh, io) == file

\* what the call returns or raises, given the file content, the key
\* generate_key draws and what the file system does
GenerateOrLoadKey(file, fresh, io) ==
    IF file # NoFile
      THEN IF io = "open_fails"
             THEN Raise("PermissionError", "[Errno 13] Permission denied", 18)
             ELSE Ok(file)
      ELSE IF io = "open_fails"
             THEN Raise("PermissionError", "[Errno 13] Permission denied", 20)
           ELSE IF io = "write_fails"
             THEN Raise("OSError", "[Errno 28] No space left on device", 21)
           ELSE Ok(fresh)

\* the file afterwards: open(path, "wb") creates it empty, f.write fills it
KeyFileAfter(file, fresh, io) ==
    IF file # NoFile THEN file
    ELSE IF io = "open_fails" THEN NoFile
    ELSE IF io = "write_fails" THEN EmptyBytes
    ELSE fresh

-----------------------------------------------------------------------------
(* create_secure_cookie_pair *)

EmptyCookies == [n \in {} |-> n]

CreateSecureCookiePair(cookie_name, key, data, ttl_minutes, nonce1, nonce2, salt, send_time) ==
    LET aes == AESGCMNew(key, 26) IN
    IF ~aes.ok THEN aes
    ELSE
      LET payload1 == Payload1(IsoFormat(send_time), ttl_minutes, salt)
          payload2 == Payload2(IsoFormat(send_time), data)
          encrypted1 == AesEncrypt(key, nonce1, payload1)
          encrypted2 == AesEncrypt(key, nonce2, payload2)
      IN Ok([n \in {cookie_name \o "_time", cookie_name} |->
               IF n = cookie_name \o "_time"
                 THEN B64Encode(Concat(nonce1, encrypted1))
                 ELSE B64Encode(Concat(nonce2, encrypted2))])

-----------------------------------------------------------------------------
(* read_secure_cookie *)

\* names assigned inside read_secure_cookie
ReadLocals ==
    {"cookie_name", "cookies", "key", "cookie_send_time", "aes", "ct1", "ct2",
     "nonce1", "encrypted1", "nonce2", "encrypted2", "decrypted1", "decrypted2",
     "send_time1", "ttl", "salt", "send_time2", "value", "ts", "e"}

\* lines 55-68, given the decoded bytes of both cookies
ReadDecoded(key, ct1, ct2, utcnow) ==
    LET decrypted1 == AesDecrypt(key, ct1.nonce, ct1.ct, 58) IN
    IF ~decrypted1.ok THEN decrypted1 ELSE
    LET decrypted2 == AesDecrypt(key, ct2.nonce, ct2.ct, 59) IN
    IF ~decrypted2.ok THEN decrypted2 ELSE
    LET parts1 == Split(decrypted1.val, "|")
        parts2 == Split(decrypted2.val, "|")
    IN
    IF Len(parts1) # 3
      THEN Raise("ValueError", "wrong number of values to unpack (expected 3)", 61) ELSE
    IF Len(parts2) # 2
      THEN Raise("ValueError", "wrong number of values to unpack (expected 2)", 62) ELSE
    IF parts1[1] # parts2[1] THEN Raise("AssertionError", "", 64) ELSE
    LET ts == FromIsoFormat(parts1[1], 65) IN
    IF ~ts.ok THEN ts ELSE
    LET td == TimedeltaOfStr(parts1[2], 66) IN
    IF ~td.ok THEN td ELSE
    IF ~(utcnow - ts.val <= td.val) THEN Raise("AssertionError", "", 66) ELSE
    Ok(parts2[2])

\* the try block, lines 48-68
ReadTry(cookie_name, cookies, key, utcnow) ==
    IF (cookie_name \o "_time") \notin DOMAIN cookies
      THEN Raise("KeyError", KeyErrorMsg(cookie_name \o "_time"), 48) ELSE
    LET renamed == StrGetItem(cookie_name, cookie_name, 49) IN
    IF ~renamed.ok THEN renamed ELSE
    LET aes == AESGCMNew(key, 50) IN
    IF ~aes.ok THEN aes ELSE
    LET ct1 == B64Decode(cookies[cookie_name \o "_time"], 51) IN
    IF ~ct1.ok THEN ct1 ELSE
    LET cookie_answer == LoadName("cookie_answer", ReadLocals, 52) IN
    IF ~cookie_answer.ok THEN cookie_answer ELSE
    LET ct2 == B64Decode(cookie_answer.val, 52) IN
    IF ~ct2.ok THEN ct2 ELSE
    ReadDecoded(key, ct1.val, ct2.val, utcnow)

\* read_secure_cookie: (True, value), or (False, str(e)) for any exception;
\* exc and line name the exception behind a False
\* read_secure_cookie whose except branch reports success
ReadSecureCookieExceptTrue(cookie_name, cookies, key, utcnow) ==
    LET r == ReadTry(cookie_name, cookies, key, utcnow) IN
    IF r.ok
      THEN [valid |-> TRUE, value |-> r.val, exc |-> "", line |-> 68]
      ELSE [valid |-> TRUE, value |-> r.msg, exc |-> r.exc, line |-> r.line]

ReadSecureCookie(cookie_name, cookies, key, utcnow) ==
    LET r == ReadTry(cookie_name, cookies, key, utcnow) IN
    IF r.ok
      THEN [valid |-> TRUE, value |-> r.val, exc |-> "", line |-> 68]
      ELSE [valid |-> FALSE, value |-> r.msg, exc |-> r.exc, line |-> r.line]

-----------------------------------------------------------------------------
(* is_captcha_complete *)

\* is_captcha_complete with the comparison of line 171 inverted
IsCaptchaCompleteInverted(cookies, key, utcnow) ==
    ReadSecureCookie("captcha_passed", cookies, key, utcnow).value # "true"

\* read_secure_cookie catches every exception itself, so the except branch
\* of is_captcha_complete is never taken
IsCaptchaComplete(cookies, key, utcnow) ==
    ReadSecureCookie("captcha_passed", cookies, key, utcnow).value = "true"

-----------------------------------------------------------------------------
(* HTTP handlers *)

HttpResponse(status, body, set_cookies, exc, line) ==
    [status |-> status, body |-> body, set_cookies |-> set_cookies,
     exc |-> exc, line |-> line]

\* an exception that leaves a handler: FastAPI answers 500
ServerError(r) == HttpResponse(500, "Internal Server Error", EmptyCookies, r.exc, r.line)

\* names assigned inside verify_captcha
VerifyLocals ==
    {"response", "answer", "cookies", "validity", "captcha_value", "cookie_pair",
     "name", "value", "e"}

\* read_secure_cookie("captcha_answer", cookies): the call of line 153 passes
\* two arguments to a function of three
ReadSecureCookieNoKey(cookie_name, cookies, line) ==
    Raise("TypeError",
          "read_secure_cookie() missing 1 required positional argument: 'key'", line)

\* verify_captcha; line 151 is outside the try block
VerifyCaptcha(answer, cookies, key, nonce1, nonce2, salt, utcnow) ==
    LET request == LoadName("request", VerifyLocals, 151) IN
    IF ~request.ok THEN ServerError(request) ELSE
    LET read == ReadSecureCookieNoKey("captcha_answer", cookies, 153) IN
    IF ~read.ok
      THEN HttpResponse(200, "CAPTCHA failed", EmptyCookies, read.exc, read.line) ELSE
    IF ~read.val.valid
      THEN HttpResponse(200, "Invalid cookie, perhaps it has expired?", EmptyCookies, "", 163) ELSE
    IF read.val.value # answer
      THEN HttpResponse(200, "Wrong answer", EmptyCookies, "", 161) ELSE
    LET cookie_pair == CreateSecureCookiePair("captcha_passed", key, "true",
                           DefaultTtlMinutes, nonce1, nonce2, salt, utcnow) IN
    IF ~cookie_pair.ok
      THEN HttpResponse(200, "CAPTCHA failed", EmptyCookies, cookie_pair.exc, cookie_pair.line)
      ELSE HttpResponse(200, "Success", cookie_pair.val, "", 159)

\* global GRID_SIZE; GRID_SIZE = grid_size, the first statements of
\* generate_captcha: the module global after a call
GridSizeAfter(grid_size) == grid_size

\* image, solution = generate_captcha(..., RETURN_MODE_RETURN): generate_captcha
\* returns the rendered image alone (image_generator.py line 131)
UnpackCaptcha(line) ==
    Raise("TypeError", "cannot unpack non-iterable Image object", line)

\* generate_embedded_captcha
GenerateEmbeddedCaptcha(key, nonce1, nonce2, salt, utcnow) ==
    LET unpacked == UnpackCaptcha(126) IN
    IF ~unpacked.ok THEN ServerError(unpacked) ELSE
    LET encrypt_data == LoadName("encrypt_data", {"response", "grid_size", "noise_level"}, 136) IN
    IF ~encrypt_data.ok THEN ServerError(encrypt_data) ELSE
    LET cookie_pair == CreateSecureCookiePair("captcha_answer", key, unpacked.val, 5,
                           nonce1, nonce2, salt, utcnow) IN
    IF ~cookie_pair.ok THEN ServerError(cookie_pair)
      ELSE HttpResponse(200, "embedded_captcha.html", cookie_pair.val, "", 145)

\* cookie.split("=")[1]: the text between the first and the second "=", so a
\* base64 value that ends in "=" padding loses it
QueryValue(q) == IF q.padded THEN [q.value EXCEPT !.b64 = FALSE] ELSE q.value

\* http_check_captcha: the dict built from the two query strings "name=value";
\* a query string without "=" has no [1]
HttpCheckCaptcha(q1, q2, key, utcnow) ==
    IF ~q1.eq \/ ~q2.eq
      THEN ServerError(Raise("IndexError", "list index out of range", 115)) ELSE
    LET cookies == [n \in {q1.name, q2.name} |->
                       IF n = q2.name THEN QueryValue(q2) ELSE QueryValue(q1)]
    IN HttpResponse(200,
                    IF IsCaptchaComplete(cookies, key, utcnow) THEN "true" ELSE "false",
                    EmptyCookies, "", 115)

-----------------------------------------------------------------------------
(* The cookies a client can present *)

\* keys this deployment has loaded or persisted
IssuingKeys == ({keyfile} \cup {PRIVATE_KEY[p] : p \in Procs}) \cap Keys

\* every pair create_secure_cookie_pair can have returned up to the instant upto
IssuedPairs(cookie_name, keys, upto) ==
    {CreateSecureCookiePair(cookie_name, x[1], x[2], x[3], x[4], x[5], x[6], x[7]).val :
        x \in keys \X Payloads \X TTLs \X Nonces \X Nonces \X Salts \X (0 .. upto)}

\* one bit of the nonce prefix flipped
FlipNonce(c) ==
    [c EXCEPT !.bytes.nonce = IF @ % 2 = 0 THEN @ + 1 ELSE @ - 1]

\* one bit of the ciphertext or tag flipped
FlipCiphertext(c) == [c EXCEPT !.bytes.ct.flip = ~@]

Cookies(cookie_name, time_field, value_field) ==
    [n \in {cookie_name \o "_time", cookie_name} |->
        IF n = cookie_name \o "_time" THEN time_field ELSE value_field]

\* a pair with one bit of one field flipped
Tampered(cookie_name, pair) ==
    LET tf == pair[cookie_name \o "_time"]
        vf == pair[cookie_name]
    IN {Cookies(cookie_name, FlipNonce(tf), vf), Cookies(cookie_name, FlipCiphertext(tf), vf),
        Cookies(cookie_name, tf, FlipNonce(vf)), Cookies(cookie_name, tf, FlipCiphertext(vf))}

\* what a client can send under the cookie names of cookie_name: nothing, one
\* cookie alone, an issued pair, the time field of one issuance with the value
\* field of another, or an issued pair with one bit flipped
PresentedCookies(cookie_name) ==
    LET pairs == IssuedPairs(cookie_name, IssuingKeys, now)
        tfs == {pr[cookie_name \o "_time"] : pr \in pairs}
        vfs == {pr[cookie_name] : pr \in pairs}
    IN {EmptyCookies}
       \cup {[n \in {cookie_name \o "_time"} |-> tf] : tf \in tfs}
       \cup {[n \in {cookie_name} |-> vf] : vf \in vfs}
       \cup {Cookies(cookie_name, tf, vf) : tf \in tfs, vf \in vfs}
       \cup UNION {Tampered(cookie_name, pr) : pr \in pairs}

-----------------------------------------------------------------------------
(* State machine *)

NoOut == [none |-> TRUE]

Resp(op, proc, key, name, cookies, answer, out) ==
    [op |-> op, proc |-> proc, key |-> key, name |-> name, cookies |-> cookies,
     answer |-> answer, at |-> now, out |-> out]

\* a launcher that has not yet entered generate_or_load_key
NotLaunched == [pc |-> "exists", key |-> None]

\* a request thread that has not yet entered generate_captcha
NotStarted ==
    [pc |-> "start", grid_size |-> 0, rows |-> 0, row |-> 0, drawn |-> 0,
     misread |-> FALSE, exc |-> ""]

\* no call is in progress
NoCall ==
    [op |-> "none", proc |-> "", key |-> None, name |-> "",
     cookies |-> EmptyCookies, answer |-> "", at |-> 0, out |-> NoOut]

Idle == resp.op = "none"

Init ==
    /\ PRIVATE_KEY = [p \in Procs |-> None]
    /\ keyfile \in {NoFile, "k1", BadKeyBytes}
    /\ serving = FALSE
    /\ now = 0
    /\ resp = NoCall
    /\ GRID_SIZE = InitialGridSize
    /\ boot = [l \in Launchers |-> NotLaunched]
    /\ render = [th \in Threads |-> NotStarted]

\* the caller takes the result of its call; calls are made one at a time
Return ==
    /\ ~Idle
    /\ resp' = NoCall
    /\ UNCHANGED <<PRIVATE_KEY, keyfile, serving, now, GRID_SIZE, boot, render>>

\* the wall clock advances
Tick ==
    /\ Idle
    /\ now < MaxNow
    /\ now' = now + 1
    /\ UNCHANGED <<PRIVATE_KEY, keyfile, serving, resp, GRID_SIZE, boot, render>>

\* run_api_server in the main process: the key is stored in that process's
\* global, then uvicorn serves the app from the worker process, which imports
\* the module anew
RunApiServer ==
    /\ Idle
    /\ ~serving
    /\ \E fresh \in Keys, io \in IoOutcomes :
         LET key == GenerateOrLoadKey(keyfile, fresh, io) IN
         /\ PRIVATE_KEY' = IF key.ok THEN [PRIVATE_KEY EXCEPT !["main"] = key.val]
                                     ELSE PRIVATE_KEY
         /\ keyfile' = KeyFileAfter(keyfile, fresh, io)
         /\ serving' = key.ok
    /\ resp' = Resp("run_api_server", "main", None, "", EmptyCookies, "", NoOut)
    /\ UNCHANGED <<now, GRID_SIZE, boot, render>>

\* generate_or_load_key(path) called in the main process
GenerateOrLoadKeyCall ==
    /\ Idle
    /\ \E fresh \in Keys, io \in IoOutcomes :
         /\ resp' = Resp("generate_or_load_key", "main", PRIVATE_KEY["main"], "",
                         EmptyCookies, "",
                         [before |-> keyfile, io |-> io,
                          result |-> GenerateOrLoadKey(keyfile, fresh, io)])
         /\ keyfile' = KeyFileAfter(keyfile, fresh, io)
    /\ UNCHANGED <<PRIVATE_KEY, serving, now, GRID_SIZE, boot, render>>

\* create_secure_cookie_pair(cookie_name, PRIVATE_KEY, data, ttl) called in process p
CreateCall(p) ==
    /\ Idle
    /\ \E cookie_name \in CookieNames, data \in CreateData, ttl \in TTLs,
       nonce1 \in Nonces, nonce2 \in Nonces, salt \in Salts :
      /\ resp' = Resp("create", p, PRIVATE_KEY[p], cookie_name, EmptyCookies, "",
                      [data |-> data, ttl |-> ttl,
                       result |-> CreateSecureCookiePair(cookie_name, PRIVATE_KEY[p], data,
                                      ttl, nonce1, nonce2, salt, now)])
      /\ UNCHANGED <<PRIVATE_KEY, keyfile, serving, now, GRID_SIZE, boot, render>>

\* read_secure_cookie(cookie_name, cookies, PRIVATE_KEY) called in process p
ReadCall(p) ==
    /\ Idle
    /\ \E cookie_name \in CookieNames :
      \E cookies \in PresentedCookies(cookie_name) :
        /\ resp' = Resp("read", p, PRIVATE_KEY[p], cookie_name, cookies, "",
                        ReadSecureCookie(cookie_name, cookies, PRIVATE_KEY[p], now))
        /\ UNCHANGED <<PRIVATE_KEY, keyfile, serving, now, GRID_SIZE, boot, render>>

\* is_captcha_complete(cookies) called in process p (exported by the package)
IsCaptchaCompleteCall(p) ==
    /\ Idle
    /\ \E cookies \in PresentedCookies("captcha_passed") :
      /\ resp' = Resp("is_captcha_complete", p, PRIVATE_KEY[p], "captcha_passed", cookies, "",
                      [complete |-> IsCaptchaComplete(cookies, PRIVATE_KEY[p], now)])
      /\ UNCHANGED <<PRIVATE_KEY, keyfile, serving, now, GRID_SIZE, boot, render>>

\* GET /check_captcha_passed_cookie_validity, served by the worker
HttpCheck ==
    /\ Idle
    /\ serving
    /\ \E cookies \in PresentedCookies("captcha_passed"), eq \in BOOLEAN, padded \in BOOLEAN :
         /\ DOMAIN cookies = {"captcha_passed_time", "captcha_passed"}
         /\ LET q1 == [name |-> "captcha_passed_time", value |-> cookies["captcha_passed_time"],
                       eq |-> eq, padded |-> padded]
                q2 == [name |-> "captcha_passed", value |-> cookies["captcha_passed"],
                       eq |-> TRUE, padded |-> padded]
            IN resp' = Resp("http_check_captcha", "worker", PRIVATE_KEY["worker"],
                            "captcha_passed", cookies, "",
                            HttpCheckCaptcha(q1, q2, PRIVATE_KEY["worker"], now))
    /\ UNCHANGED <<PRIVATE_KEY, keyfile, serving, now, GRID_SIZE, boot, render>>

\* GET /verify_embedded_captcha, served by the worker
HttpVerify ==
    /\ Idle
    /\ serving
    /\ \E answer \in Answers, cookies \in PresentedCookies("captcha_answer"),
          nonce1 \in Nonces, nonce2 \in Nonces, salt \in Salts :
         resp' = Resp("verify_captcha", "worker", PRIVATE_KEY["worker"], "captcha_answer",
                      cookies, answer,
                      VerifyCaptcha(answer, cookies, PRIVATE_KEY["worker"],
                                    nonce1, nonce2, salt, now))
    /\ UNCHANGED <<PRIVATE_KEY, keyfile, serving, now, GRID_SIZE, boot, render>>

\* GET /embedded_captcha, served by the worker
HttpGenerate ==
    /\ Idle
    /\ serving
    /\ \E nonce1 \in Nonces, nonce2 \in Nonces, salt \in Salts :
         resp' = Resp("generate_embedded_captcha", "worker", PRIVATE_KEY["worker"],
                      "captcha_answer", EmptyCookies, "",
                      GenerateEmbeddedCaptcha(PRIVATE_KEY["worker"], nonce1, nonce2, salt, now))
    /\ \E grid_size \in GridSizes : GRID_SIZE' = GridSizeAfter(grid_size)
    /\ UNCHANGED <<PRIVATE_KEY, keyfile, serving, now, boot, render>>

Next ==
    \/ Tick
    \/ Return
    \/ RunApiServer
    \/ GenerateOrLoadKeyCall
    \/ \E p \in Procs : CreateCall(p)
    \/ \E p \in Procs : ReadCall(p)
    \/ \E p \in Procs : IsCaptchaCompleteCall(p)
    \/ HttpCheck
    \/ HttpVerify
    \/ HttpGenerate

Spec == Init /\ [][Next]_vars

-----------------------------------------------------------------------------
(* generate_or_load_key, statement by statement, in launchers that run side by
   side on one path *)

\* if os.path.exists(path):
BootExists(l) ==
    /\ boot[l].pc = "exists"
    /\ boot' = [boot EXCEPT ![l].pc = IF keyfile # NoFile THEN "read" ELSE "generate"]
    /\ UNCHANGED <<PRIVATE_KEY, keyfile, serving, now, resp, GRID_SIZE, render>>

\* return open(path, "rb").read()
BootRead(l) ==
    /\ boot[l].pc = "read"
    /\ boot' = [boot EXCEPT ![l] = [pc |-> "done", key |-> keyfile]]
    /\ UNCHANGED <<PRIVATE_KEY, keyfile, serving, now, resp, GRID_SIZE, render>>

\* key = AESGCM.generate_key(bit_length = 256)
BootGenerate(l) ==
    /\ boot[l].pc = "generate"
    /\ \E fresh \in Keys : boot' = [boot EXCEPT ![l] = [pc |-> "open", key |-> fresh]]
    /\ UNCHANGED <<PRIVATE_KEY, keyfile, serving, now, resp, GRID_SIZE, render>>

\* with open(path, "wb") as f: the file is created, or truncated, empty
BootOpen(l) ==
    /\ boot[l].pc = "open"
    /\ keyfile' = EmptyBytes
    /\ boot' = [boot EXCEPT ![l].pc = "write"]
    /\ UNCHANGED <<PRIVATE_KEY, serving, now, resp, GRID_SIZE, render>>

\* f.write(key): the 32 bytes go to the buffer of f
BootWrite(l) ==
    /\ boot[l].pc = "write"
    /\ boot' = [boot EXCEPT ![l].pc = "close"]
    /\ UNCHANGED <<PRIVATE_KEY, keyfile, serving, now, resp, GRID_SIZE, render>>

\* the with block closes f, which flushes the buffer to the file; return key
BootClose(l) ==
    /\ boot[l].pc = "close"
    /\ keyfile' = boot[l].key
    /\ boot' = [boot EXCEPT ![l].pc = "done"]
    /\ UNCHANGED <<PRIVATE_KEY, serving, now, resp, GRID_SIZE, render>>

InitBootstrap ==
    /\ Init
    /\ keyfile = NoFile

NextBootstrap ==
    \E l \in Launchers :
      \/ BootExists(l)
      \/ BootRead(l)
      \/ BootGenerate(l)
      \/ BootOpen(l)
      \/ BootWrite(l)
      \/ BootClose(l)

SpecBootstrap == InitBootstrap /\ [][NextBootstrap]_vars

-----------------------------------------------------------------------------
(* generate_captcha and render_scene, statement by statement, in request
   threads of one process; the fields of render[th] are the thread's locals:
   grid_size, the bound `rows` and index `row` of the outer loop, the number
   of cells taken from the scene, whether a read of GRID_SIZE gave another
   value than grid_size, and the exception raised *)

OtherVarsRender == <<PRIVATE_KEY, keyfile, serving, now, resp, boot>>

\* global GRID_SIZE; GRID_SIZE = grid_size
RenderStart(th) ==
    /\ render[th].pc = "start"
    /\ \E grid_size \in GridSizes :
         /\ GRID_SIZE' = GridSizeAfter(grid_size)
         /\ render' = [render EXCEPT ![th].pc = "grid", ![th].grid_size = grid_size]
    /\ UNCHANGED OtherVarsRender

\* grid = [["" for x in range(grid_size)] for y in range(grid_size)] and its
\* filling with shapes: a list of grid_size rows of grid_size cells
RenderGrid(th) ==
    /\ render[th].pc = "grid"
    /\ render' = [render EXCEPT ![th].pc = "outer"]
    /\ UNCHANGED <<GRID_SIZE, OtherVarsRender>>

\* render_scene(grid): for row in range(GRID_SIZE), the range made once
RenderOuter(th) ==
    /\ render[th].pc = "outer"
    /\ render' = [render EXCEPT ![th].pc = "inner", ![th].rows = GRID_SIZE, ![th].row = 0,
                                ![th].misread = @ \/ GRID_SIZE # render[th].grid_size]
    /\ UNCHANGED <<GRID_SIZE, OtherVarsRender>>

\* one pass of the outer loop: for col in range(GRID_SIZE): scene[row][col],
\* which raises IndexError past the rows or the cells of the thread's grid
RenderInner(th) ==
    LET r == render[th] IN
    /\ r.pc = "inner"
    /\ render' =
         IF r.row = r.rows
           THEN [render EXCEPT ![th].pc = "ground"]
         ELSE IF r.row >= r.grid_size \/ GRID_SIZE > r.grid_size
           THEN [render EXCEPT ![th].pc = "raised", ![th].exc = "IndexError",
                               ![th].misread = TRUE]
         ELSE [render EXCEPT ![th].row = @ + 1, ![th].drawn = @ + GRID_SIZE,
                             ![th].misread = @ \/ GRID_SIZE # r.grid_size]
    /\ UNCHANGED <<GRID_SIZE, OtherVarsRender>>

\* total_width = (GRID_SIZE - 1) * cell_spacing, the ground plane
RenderGround(th) ==
    /\ render[th].pc = "ground"
    /\ render' = [render EXCEPT ![th].pc = "camera",
                                ![th].misread = @ \/ GRID_SIZE # render[th].grid_size]
    /\ UNCHANGED <<GRID_SIZE, OtherVarsRender>>

\* cam_pos = (center[0] + GRID_SIZE + ..., ...), then the screenshot is returned
RenderCamera(th) ==
    /\ render[th].pc = "camera"
    /\ render' = [render EXCEPT ![th].pc = "done",
                                ![th].misread = @ \/ GRID_SIZE # render[th].grid_size]
    /\ UNCHANGED <<GRID_SIZE, OtherVarsRender>>

InitRender ==
    /\ Init
    /\ keyfile = NoFile

NextRender ==
    \E th \in Threads :
      \/ RenderStart(th)
      \/ RenderGrid(th)
      \/ RenderOuter(th)
      \/ RenderInner(th)
      \/ RenderGround(th)
      \/ RenderCamera(th)

SpecRender == InitRender /\ [][NextRender]_vars

-----------------------------------------------------------------------------
(* Vocabulary of the properties *)

\* the pairs an encode call at instant t can have returned for (data, ttl)
\* under key k, over all draws of the two nonces and the salt
Issuances(cookie_name, k, data, ttl, t) ==
    {CreateSecureCookiePair(cookie_name, k, data, ttl, x[1], x[2], x[3], t).val :
        x \in Nonces \X Nonces \X Salts}

\* the presented cookies of the last call are an unmodified pair issued at t
PresentedIssuance(data, ttl, t) ==
    /\ resp.key \in Keys
    /\ resp.cookies \in Issuances(resp.name, resp.key, data, ttl, t)

\* ticks elapsed at the last call since the instant t
Elapsed(t) == resp.at - t

\* the TokenError kinds, by the exception that read_secure_cookie catches
IsTamper(out) == ~out.valid /\ out.exc = "InvalidTag"

IsInconsistent(out) == ~out.valid /\ out.exc = "AssertionError" /\ out.line = 64

IsExpired(out) == ~out.valid /\ out.exc = "AssertionError" /\ out.line = 66

-----------------------------------------------------------------------------
(* Properties *)

\* C1: round trip. Decoding, at the instant of encoding and with the same name
\* and key, a pair that encode returned for (data, ttl) succeeds and returns
\* exactly data.
C1_RoundTrip ==
    resp.op = "read" =>
      \A data \in Payloads, ttl \in TTLs :
        PresentedIssuance(data, ttl, resp.at) =>
          resp.out.valid /\ resp.out.value = data

\* C2: completion gating. is_captcha_complete is true exactly when decoding the
\* presented "passed" pair succeeds with the marker as payload; in particular it
\* is true for a passed token issued less than its TTL ago, and false for an
\* absent pair, an expired pair and a payload other than the marker.
C2_CompletionGating ==
    resp.op = "is_captcha_complete" =>
      LET rd == ReadSecureCookie("captcha_passed", resp.cookies, resp.key, resp.at) IN
      /\ resp.out.complete <=> (rd.valid /\ rd.value = Marker)
      /\ resp.cookies = EmptyCookies => ~resp.out.complete
      /\ \A data \in Payloads, ttl \in TTLs, t \in 0 .. resp.at :
           PresentedIssuance(data, ttl, t) =>
             /\ (data = Marker /\ Elapsed(t) < Timedelta(ttl)) => resp.out.complete
             /\ (data # Marker \/ Elapsed(t) > Timedelta(ttl)) => ~resp.out.complete

\* C3: end to end. Submitting the expected answer with an answer token of TTL 5
\* that has not expired yields Success and sets a passed pair; a passed token of
\* TTL 5 is complete when just issued and no longer complete 6 minutes later.
C3_EndToEnd ==
    /\ resp.op = "verify_captcha" =>
         \A t \in 0 .. resp.at, k \in IssuingKeys :
           (/\ resp.cookies \in Issuances("captcha_answer", k, resp.answer, 5, t)
            /\ Elapsed(t) < Timedelta(5))
           => /\ resp.out.body = "Success"
              /\ resp.out.set_cookies \in Issuances("captcha_passed", k, Marker, 5, resp.at)
    /\ resp.op = "is_captcha_complete" =>
         \A t \in 0 .. resp.at, k \in IssuingKeys :
           (resp.key = k /\ resp.cookies \in Issuances("captcha_passed", k, Marker, 5, t)) =>
             /\ Elapsed(t) = 0 => resp.out.complete
             /\ Elapsed(t) >= Timedelta(6) => ~resp.out.complete

\* C4: expiry boundary. A pair of TTL m decodes while less than m minutes have
\* elapsed since its issue, and fails as expired once more than m have.
C4_ExpiryBoundary ==
    resp.op = "read" =>
      \A data \in Payloads, ttl \in TTLs, t \in 0 .. resp.at :
        PresentedIssuance(data, ttl, t) =>
          /\ Elapsed(t) < Timedelta(ttl) => resp.out.valid /\ resp.out.value = data
          /\ Elapsed(t) > Timedelta(ttl) => IsExpired(resp.out)

\* C5: cross-field substitution. The time field of one issuance presented with
\* the value field of an issuance made at another instant, under the same key,
\* fails as inconsistent and returns the payload of neither.
C5_CrossField ==
    (resp.op = "read" /\ resp.key \in Keys) =>
      \A t1 \in 0 .. resp.at, t2 \in 0 .. resp.at :
        t1 # t2 =>
          \A d1 \in Payloads, d2 \in Payloads, ttl1 \in TTLs, ttl2 \in TTLs :
            \A a \in Issuances(resp.name, resp.key, d1, ttl1, t1),
               b \in Issuances(resp.name, resp.key, d2, ttl2, t2) :
              resp.cookies = Cookies(resp.name, a[resp.name \o "_time"], b[resp.name]) =>
                /\ IsInconsistent(resp.out)
                /\ resp.out.value \notin {d1, d2}

\* C6: tamper sensitivity. An issued pair with one bit of the nonce or of the
\* ciphertext of either field flipped fails decoding as tampered.
C6_TamperSensitivity ==
    (resp.op = "read" /\ resp.key \in Keys) =>
      \A data \in Payloads, ttl \in TTLs, t \in 0 .. resp.at :
        \A pr \in Issuances(resp.name, resp.key, data, ttl, t) :
          resp.cookies \in Tampered(resp.name, pr) => IsTamper(resp.out)

\* C7: verify_captcha sets a new passed pair exactly when the presented answer
\* pair decodes and its payload equals the submitted answer; a pair that does
\* not decode gives the invalid-cookie answer, a different payload gives the
\* wrong-answer answer, and neither sets a cookie.
C7_VerifyOutcome ==
    resp.op = "verify_captcha" =>
      LET rd == ReadSecureCookie("captcha_answer", resp.cookies, resp.key, resp.at)
          issued == resp.out.set_cookies # EmptyCookies
      IN /\ issued <=> (rd.valid /\ rd.value = resp.answer)
         /\ ~rd.valid =>
              resp.out.body = "Invalid cookie, perhaps it has expired?" /\ ~issued
         /\ (rd.valid /\ rd.value # resp.answer) =>
              resp.out.body = "Wrong answer" /\ ~issued

\* C8: every request the HTTP application handles is handled by a process
\* whose PRIVATE_KEY has been initialized.
C8_KeyBeforeRequests ==
    resp.op \in {"generate_embedded_captcha", "verify_captcha", "http_check_captcha"} =>
      resp.key # None

\* C9: retry. With an answer pair that has not expired, a wrong answer is
\* answered as a mismatch and sets nothing, and the right answer is answered
\* Success, whatever was submitted before.
C9_RetryUntilExpiry ==
    resp.op = "verify_captcha" =>
      \A data \in Payloads, ttl \in TTLs, t \in 0 .. resp.at, k \in IssuingKeys :
        (/\ resp.cookies \in Issuances("captcha_answer", k, data, ttl, t)
         /\ Elapsed(t) < Timedelta(ttl))
        => /\ resp.answer # data =>
                resp.out.body = "Wrong answer" /\ resp.out.set_cookies = EmptyCookies
           /\ resp.answer = data => resp.out.body = "Success"

\* some issuance of the presented pair is older than its TTL at the last call
PresentedExpired ==
    /\ DOMAIN resp.cookies = {resp.name \o "_time", resp.name}
    /\ \E ttl \in TTLs, t \in 0 .. resp.at :
         /\ Elapsed(t) > Timedelta(ttl)
         /\ \E salt \in Salts :
              resp.cookies[resp.name \o "_time"].bytes.ct.pt
                = Payload1(IsoFormat(t), ttl, salt)
         /\ \E data \in Payloads, k \in IssuingKeys :
              resp.cookies \in Issuances(resp.name, k, data, ttl, t)

\* C10: a pair whose TTL has elapsed is rejected by every decode, in every
\* process and at every later instant, and is_captcha_complete is false for it.
C10_ExpiredRejected ==
    (resp.op \in {"read", "is_captcha_complete", "http_check_captcha"} /\ PresentedExpired) =>
      /\ resp.op = "read" => ~resp.out.valid
      /\ resp.op = "is_captcha_complete" => ~resp.out.complete
      /\ resp.op = "http_check_captcha" => resp.out.body # "true"

\* an expired passed token, issued under the key the checking process holds,
\* has been checked and found not complete
C10_Witness ==
    /\ resp.op = "is_captcha_complete"
    /\ resp.key \in Keys
    /\ \E ttl \in TTLs, t \in 0 .. resp.at :
         /\ Elapsed(t) > Timedelta(ttl)
         /\ resp.cookies \in Issuances("captcha_passed", resp.key, Marker, ttl, t)
    /\ ~resp.out.complete

\* the presented answer pair is an unmodified issuance, under a key of the
\* deployment, whose TTL has not elapsed
UnexpiredAnswerToken(cookies, data) ==
    \E ttl \in TTLs, t \in 0 .. resp.at, k \in IssuingKeys :
      /\ Elapsed(t) <= Timedelta(ttl)
      /\ cookies \in Issuances("captcha_answer", k, data, ttl, t)

\* the caller-visible answer of verify_captcha to the last submission's answer
\* with other cookies
VerifyAnswerTo(cookies) ==
    LET r == VerifyCaptcha(resp.answer, cookies, resp.key, 0, 0,
                           CHOOSE s \in Salts : TRUE, resp.at)
    IN <<r.status, r.body>>

\* C11: no rejection oracle. verify_captcha answers every rejected token the
\* same way, and answers a wrong answer with a valid token differently from
\* every rejected token; is_captcha_complete answers every rejected token false.
C11_NoRejectionOracle ==
    /\ resp.op = "verify_captcha" =>
         LET rejected == {c \in PresentedCookies("captcha_answer") :
                            \A d \in Payloads : ~UnexpiredAnswerToken(c, d)}
             mine == <<resp.out.status, resp.out.body>>
         IN /\ resp.cookies \in rejected =>
                 \A c \in rejected : VerifyAnswerTo(c) = mine
            /\ (\E d \in Payloads : d # resp.answer /\ UnexpiredAnswerToken(resp.cookies, d)) =>
                 \A c \in rejected : VerifyAnswerTo(c) # mine
    /\ (resp.op = "is_captcha_complete" /\ ~resp.out.complete) =>
         \A c \in PresentedCookies("captcha_passed") :
           (\A ttl \in TTLs, t \in 0 .. resp.at, k \in IssuingKeys :
              c \notin Issuances("captcha_passed", k, Marker, ttl, t))
           => ~IsCaptchaComplete(c, resp.key, resp.at)

\* C12: delimiter safety. A pair returned by create_secure_cookie_pair holds a
\* value plaintext that dec2.split("|") of read_secure_cookie takes apart into
\* exactly the send time and the payload given, and a time plaintext that
\* splits into exactly three parts; a payload with "|" is escaped or rejected.
C12_DelimiterSafety ==
    (resp.op = "create" /\ resp.out.result.ok) =>
      LET pair == resp.out.result.val
          dec1 == pair[resp.name \o "_time"].bytes.ct.pt
          dec2 == pair[resp.name].bytes.ct.pt
      IN /\ Split(dec2, "|") = <<IsoFormat(resp.at), resp.out.data>>
         /\ Len(Split(dec1, "|")) = 3

\* the requests of the token protocol: issue, verify and completion check
ProtocolRequests ==
    {"generate_embedded_captcha", "verify_captcha", "is_captcha_complete", "http_check_captcha"}

\* C13: statelessness. No issue, verify or completion-check request changes
\* the key or any other state held by the server, and the result of
\* is_captcha_complete is determined by the cookies, the key and the time.
C13_Stateless ==
    /\ [][resp'.op \in ProtocolRequests =>
            UNCHANGED <<PRIVATE_KEY, keyfile, GRID_SIZE>>]_vars
    /\ [](resp.op = "is_captcha_complete" =>
            resp.out.complete = IsCaptchaComplete(resp.cookies, resp.key, resp.at))

\* C14: KeyStore failure. generate_or_load_key raises KeyStoreError when the
\* path holds something that is not a 256-bit key or cannot be read, or when
\* the new key cannot be persisted; what it returns is always a 256-bit key.
C14_KeyStoreFailure ==
    resp.op = "generate_or_load_key" =>
      LET result == resp.out.result IN
      /\ result.ok => result.val \in Keys
      /\ resp.out.before \notin Keys \cup {NoFile} =>
           (~result.ok /\ result.exc = "KeyStoreError")
      /\ ~result.ok => result.exc = "KeyStoreError"

\* C15: KeyStore persistence. A call that returns gives back the content of an
\* existing file verbatim and leaves the file as it was; with no file it
\* returns a 256-bit key and the file then holds that key; a file that exists
\* is never changed again, so later calls return the same key.
C15_KeyStorePersistence ==
    /\ [](resp.op = "generate_or_load_key" /\ resp.out.result.ok =>
            IF resp.out.before # NoFile
              THEN resp.out.result.val = resp.out.before /\ keyfile = resp.out.before
              ELSE resp.out.result.val \in Keys /\ keyfile = resp.out.result.val)
    /\ [][(keyfile \in Keys) => (keyfile' = keyfile)]_vars

\* a call returns the key that an earlier call generated and persisted
C15_Witness ==
    /\ resp.op = "generate_or_load_key"
    /\ resp.out.before = "k2"
    /\ resp.out.result.ok
    /\ resp.out.result.val = "k2"
    /\ keyfile = "k2"

\* C17: answer binding at issuance. Every GET /embedded_captcha is answered
\* with the challenge page and sets an answer pair, issued under the server's
\* key at the time of the request with the default TTL, whose payload is the
\* expected answer of the challenge.
C17_AnswerBinding ==
    resp.op = "generate_embedded_captcha" =>
      /\ resp.out.status = 200
      /\ \E expected_answer \in Payloads :
           resp.out.set_cookies \in
             Issuances("captcha_answer", resp.key, expected_answer, DefaultTtlMinutes, resp.at)

OtherName(cookie_name) ==
    IF cookie_name = "captcha_answer" THEN "captcha_passed" ELSE "captcha_answer"

\* the two cookie values, moved by the client to the cookie names of `to`
Renamed(cookies, from, to) == Cookies(to, cookies[from \o "_time"], cookies[from])

\* cookies, under the names of cookie_name, are a pair that an encode call
\* made under that name by the deployment returned
IssuedAs(cookie_name, cookies) ==
    \E ttl \in TTLs, t \in 0 .. resp.at :
      /\ \E salt \in Salts :
           cookies[cookie_name \o "_time"].bytes.ct.pt = Payload1(IsoFormat(t), ttl, salt)
      /\ \E data \in Payloads, k \in IssuingKeys :
           cookies \in Issuances(cookie_name, k, data, ttl, t)

\* the last call was handed, under its own cookie names, a pair issued under
\* the other name
PresentedOtherName ==
    /\ resp.name \in CookieNames
    /\ DOMAIN resp.cookies = {resp.name \o "_time", resp.name}
    /\ IssuedAs(OtherName(resp.name), Renamed(resp.cookies, resp.name, OtherName(resp.name)))

\* C18: name binding. A pair issued under one name and presented under the
\* cookie names of the other is never accepted: read_secure_cookie does not
\* report it valid, verify_captcha does not answer Success or set a passed
\* pair for it, and is_captcha_complete is false for it.
C18_NameBinding ==
    PresentedOtherName =>
      /\ resp.op = "read" => ~resp.out.valid
      /\ resp.op = "verify_captcha" =>
           (resp.out.body # "Success" /\ resp.out.set_cookies = EmptyCookies)
      /\ resp.op = "is_captcha_complete" => ~resp.out.complete
      /\ resp.op = "http_check_captcha" => resp.out.body # "true"

\* a passed pair within its TTL, moved to the answer cookie names and
\* submitted with the marker as the answer, was not accepted
C18_Witness ==
    /\ resp.op = "verify_captcha"
    /\ resp.answer = Marker
    /\ \E ttl \in TTLs, t \in 0 .. resp.at, k \in IssuingKeys :
         /\ Elapsed(t) <= Timedelta(ttl)
         /\ DOMAIN resp.cookies = {"captcha_answer_time", "captcha_answer"}
         /\ Renamed(resp.cookies, "captcha_answer", "captcha_passed")
              \in Issuances("captcha_passed", k, Marker, ttl, t)
    /\ resp.out.body # "Success"
    /\ resp.out.set_cookies = EmptyCookies

\* C19: concurrent key bootstrap. When the launchers have all returned from
\* generate_or_load_key on a path that did not exist, they hold one and the
\* same 256-bit key, and the file holds that key.
C19_ConcurrentBootstrap ==
    (\A l \in Launchers : boot[l].pc = "done") =>
      \A l \in Launchers : boot[l].key \in Keys /\ boot[l].key = keyfile

\* C20: concurrent issue calls do not race. In every thread, each read of
\* GRID_SIZE made while rendering gives the grid_size of that thread's own
\* generate_captcha call, no subscript leaves the thread's grid, and a finished
\* render has taken every cell of the grid_size x grid_size grid.
C20_NoRenderRace ==
    \A th \in Threads :
      /\ ~render[th].misread
      /\ render[th].exc = ""
      /\ render[th].pc = "done" =>
           /\ render[th].rows = render[th].grid_size
           /\ render[th].drawn = render[th].grid_size * render[th].grid_size

====
